---- MODULE Spec2Model ----
(***************************************************************************)
(* Model of contract_probe.py: the contract validation engine of the       *)
(* Phi(x)O instrument.  One run of main() resolves the target, extracts    *)
(* the cli and zones contracts, optionally performs the golden run,        *)
(* reduces the three axes to compliance levels and writes the report.      *)
(*                                                                         *)
(* Python values are tagged records [t |-> <type>, v |-> <payload>]; a     *)
(* dict is a TLA+ function from key strings to values; text is a sequence  *)
(* of one-character strings so that `in`, len and sorted are computed.     *)
(***************************************************************************)
EXTENDS Integers, Sequences, FiniteSets, TLC

VARIABLES pc, target, opts, cli, zones, formula, compliance, fault, calls, tmpdirs, report,
          run, first, clock

vars ==
  <<pc, target, opts, cli, zones, formula, compliance, fault, calls, tmpdirs, report,
    run, first, clock>>

(***************************************************************************)
(* Python values                                                           *)
(***************************************************************************)
PyNone == [t |-> "none"]
PyBool(b) == [t |-> "bool", v |-> b]
PyInt(n) == [t |-> "int", v |-> n]
\* a float is held in tenths: PyFloat(15) is 1.5
PyFloat(x) == [t |-> "float", v |-> x]
PyStr(s) == [t |-> "str", v |-> s]
PyList(s) == [t |-> "list", v |-> s]
PyTuple(s) == [t |-> "tuple", v |-> s]
PyDict(f) == [t |-> "dict", v |-> f]

EmptyDict == <<>>

\* d.get(k, default) on a dict held as a function
Get(d, k, default) == IF k \in DOMAIN d THEN d[k] ELSE default

\* d[k] = v on a dict held as a function
Put(d, k, v) == (k :> v) @@ d

\* bool(x) of a tagged value
Truthy(x) ==
  CASE x.t = "none" -> FALSE
    [] x.t = "bool" -> x.v
    [] x.t \in {"int", "float"} -> x.v # 0
    [] x.t = "str" -> x.v # ""
    [] x.t \in {"list", "tuple"} -> Len(x.v) > 0
    [] x.t = "dict" -> DOMAIN x.v # {}
    [] OTHER -> TRUE

\* isinstance(v, (int, float, str)) and not isinstance(v, bool)
IsLiteral(x) == x.t \in {"int", "float", "str"}

\* isinstance(x, (int, float)) and not isinstance(x, bool)
IsNumber(x) == x.t \in {"int", "float"}

\* float(x) of an int or a float, in tenths
ToFloat(x) == IF x.t = "int" THEN PyFloat(x.v * 10) ELSE PyFloat(x.v)

\* {k: v for k, v in d.items() if <literal>}
LiteralItems(d) == [k \in {j \in DOMAIN d : IsLiteral(d[j])} |-> d[k]]

\* [x for x in s if keep(x)]
FilterSeq(s, keep(_)) ==
  LET F[i \in 0..Len(s)] ==
        IF i = 0 THEN <<>>
        ELSE IF keep(s[i]) THEN Append(F[i - 1], s[i]) ELSE F[i - 1]
  IN F[Len(s)]

SeqElems(s) == {s[i] : i \in 1..Len(s)}

(***************************************************************************)
(* Text: characters, substring test, ordering                              *)
(***************************************************************************)
\* ord(c) of the characters that occur in the tokens
Ord ==
  [c \in {" ", "-", ":", "_", "a", "c", "d", "e", "g", "h", "i", "l", "m", "n",
          "o", "p", "r", "s", "t", "u", "w", "U+03C4"} |->
     CASE c = " " -> 32 [] c = "-" -> 45 [] c = ":" -> 58 [] c = "_" -> 95
       [] c = "a" -> 97 [] c = "c" -> 99 [] c = "d" -> 100 [] c = "e" -> 101
       [] c = "g" -> 103 [] c = "h" -> 104 [] c = "i" -> 105 [] c = "l" -> 108
       [] c = "m" -> 109 [] c = "n" -> 110 [] c = "o" -> 111 [] c = "p" -> 112
       [] c = "r" -> 114 [] c = "s" -> 115 [] c = "t" -> 116 [] c = "u" -> 117
       [] c = "w" -> 119 [] c = "U+03C4" -> 964]

\* the spelling of each token, one character per element
Chars(tok) ==
  CASE tok = "new-template" -> <<"n","e","w","-","t","e","m","p","l","a","t","e">>
    [] tok = "score" -> <<"s","c","o","r","e">>
    [] tok = "--input" -> <<"-","-","i","n","p","u","t">>
    [] tok = "--outdir" -> <<"-","-","o","u","t","d","i","r">>
    [] tok = "--help" -> <<"-","-","h","e","l","p">>
    [] tok = "--agg_tau" -> <<"-","-","a","g","g","_","t","a","u">>
    [] tok = "--agg_U+03C4" -> <<"-","-","a","g","g","_","U+03C4">>
    [] tok = "usage:" -> <<"u","s","a","g","e",":">>
    [] tok = "scores" -> <<"s","c","o","r","e","s">>
    [] tok = "--inputs" -> <<"-","-","i","n","p","u","t","s">>
    [] tok = "T" -> <<"T">>
    [] tok = "K_eff" -> <<"K","_","e","f","f">>
    [] tok = "T,K_eff" -> <<"T",",","K","_","e","f","f">>
    [] tok = "x" -> <<"x">>
    [] tok = "" -> <<>>

\* `needle in text` on str: needle occurs as a contiguous run of text
Contains(needle, text) ==
  \E i \in 1..(Len(text) - Len(needle) + 1) :
    SubSeq(text, i, i + Len(needle) - 1) = needle

\* a < b on str: lexicographic by code point
RECURSIVE StrLess(_, _)
StrLess(a, b) ==
  IF b = <<>> THEN FALSE
  ELSE IF a = <<>> THEN TRUE
  ELSE IF Ord[Head(a)] # Ord[Head(b)] THEN Ord[Head(a)] < Ord[Head(b)]
  ELSE StrLess(Tail(a), Tail(b))

\* sorted(set(toks)) for a list of tokens
RECURSIVE SortedSet(_)
SortedSet(S) ==
  IF S = {} THEN <<>>
  ELSE LET m == CHOOSE x \in S : \A y \in S \ {x} : StrLess(Chars(x), Chars(y))
       IN <<m>> \o SortedSet(S \ {m})

\* " ".join(words) as characters
RECURSIVE JoinWords(_)
JoinWords(ws) ==
  IF ws = <<>> THEN <<>>
  ELSE IF Len(ws) = 1 THEN Chars(ws[1])
  ELSE Chars(ws[1]) \o <<" ">> \o JoinWords(Tail(ws))

(***************************************************************************)
(* extract_cli_contract                                                    *)
(***************************************************************************)
required_subcommands == <<"new-template", "score">>

required_flags == <<"--input", "--outdir">>

scanned_flags == <<"--input", "--outdir", "--help", "--agg_tau", "--agg_U+03C4">>

\* the outcome of run_help_fn: it raises, returns None, or returns text
HelpRaises(h) == h.kind = "raise"

\* the capability returns a truthy value that has no len()
HelpUnsized(h) == h.kind = "object"

HelpText(h) == IF h.kind = "text" THEN JoinWords(h.words) ELSE <<>>

cli_initial ==
  [help_valid |-> FALSE, help_len |-> 0, subcommands |-> <<>>, flags |-> <<>>,
   required_subcommands |-> required_subcommands, required_flags |-> required_flags]

\* a variant that detects a token only as a whole word of the help text
extract_cli_contract_whole_words(h) ==
  IF HelpRaises(h)
  THEN Put(cli_initial, "error", h.msg)
  ELSE IF HelpUnsized(h)
  THEN Put([cli_initial EXCEPT !.help_valid = TRUE], "error", "TypeError: no len()")
  ELSE LET help_text == HelpText(h)
           found(f) == f \in SeqElems(h.words)
       IN Put([cli_initial EXCEPT
                 !.help_valid = TRUE,
                 !.help_len = Len(help_text),
                 !.subcommands = FilterSeq(required_subcommands, found),
                 !.flags = SortedSet({f \in SeqElems(scanned_flags) : found(f)})],
              "tau_aliases",
              [has_tau_ascii |-> found("--agg_tau"),
               has_tau_unicode |-> found("--agg_U+03C4")])

\* a variant that holds the help valid only when the target exited with 0 and
\* printed some text
extract_cli_contract_valid_if_output(h) ==
  IF HelpRaises(h)
  THEN Put(cli_initial, "error", h.msg)
  ELSE IF HelpUnsized(h)
  THEN Put([cli_initial EXCEPT !.help_valid = TRUE], "error", "TypeError: no len()")
  ELSE LET help_text == HelpText(h)
           found(f) == Contains(Chars(f), help_text)
       IN Put([cli_initial EXCEPT
                 !.help_valid = (h.rc = 0 /\ help_text # <<>>),
                 !.help_len = Len(help_text),
                 !.subcommands = FilterSeq(required_subcommands, found),
                 !.flags = SortedSet({f \in SeqElems(scanned_flags) : found(f)})],
              "tau_aliases",
              [has_tau_ascii |-> found("--agg_tau"),
               has_tau_unicode |-> found("--agg_U+03C4")])

\* a variant that marks the help valid before the capability is called
extract_cli_contract_valid_before_call(h) ==
  IF HelpRaises(h)
  THEN Put([cli_initial EXCEPT !.help_valid = TRUE], "error", h.msg)
  ELSE IF HelpUnsized(h)
  THEN Put([cli_initial EXCEPT !.help_valid = TRUE], "error", "TypeError: no len()")
  ELSE LET help_text == HelpText(h)
           found(f) == Contains(Chars(f), help_text)
       IN Put([cli_initial EXCEPT
                 !.help_valid = TRUE,
                 !.help_len = Len(help_text),
                 !.subcommands = FilterSeq(required_subcommands, found),
                 !.flags = SortedSet({f \in SeqElems(scanned_flags) : found(f)})],
              "tau_aliases",
              [has_tau_ascii |-> found("--agg_tau"),
               has_tau_unicode |-> found("--agg_U+03C4")])

extract_cli_contract(h) ==
  IF HelpRaises(h)
  THEN Put(cli_initial, "error", h.msg)
  ELSE IF HelpUnsized(h)
  THEN Put([cli_initial EXCEPT !.help_valid = TRUE], "error", "TypeError: no len()")
  ELSE LET help_text == HelpText(h)
           found(f) == Contains(Chars(f), help_text)
       IN Put([cli_initial EXCEPT
                 !.help_valid = TRUE,
                 !.help_len = Len(help_text),
                 !.subcommands = FilterSeq(required_subcommands, found),
                 !.flags = SortedSet({f \in SeqElems(scanned_flags) : found(f)})],
              "tau_aliases",
              [has_tau_ascii |-> found("--agg_tau"),
               has_tau_unicode |-> found("--agg_U+03C4")])

(***************************************************************************)
(* calculate_compliance_levels                                             *)
(***************************************************************************)
order == [FULL |-> 3, PARTIAL |-> 2, MINIMAL |-> 1]

assess_level(full, partial) ==
  IF full THEN "FULL" ELSE IF partial THEN "PARTIAL" ELSE "MINIMAL"

\* a variant that takes the greatest rank
MaxByOrder(levels) ==
  levels[CHOOSE i \in 1..Len(levels) :
           /\ \A j \in 1..Len(levels) : order[levels[j]] <= order[levels[i]]
           /\ \A j \in 1..(i - 1) : order[levels[j]] < order[levels[i]]]

\* min(levels, key=lambda x: order[x]): the first element of least rank
MinByOrder(levels) ==
  levels[CHOOSE i \in 1..Len(levels) :
           /\ \A j \in 1..Len(levels) : order[levels[j]] >= order[levels[i]]
           /\ \A j \in 1..(i - 1) : order[levels[j]] > order[levels[i]]]

\* a variant that asks for one subcommand only
cli_level_one_subcommand(cli_info) ==
  LET valid == Get(cli_info, "help_valid", FALSE)
      cli_full == /\ valid
                  /\ Len(Get(cli_info, "subcommands", <<>>)) >= 1
                  /\ \A f \in {"--input", "--outdir"} :
                       f \in SeqElems(Get(cli_info, "flags", <<>>))
  IN assess_level(cli_full, valid)

cli_level(cli_info) ==
  LET valid == Get(cli_info, "help_valid", FALSE)
      cli_full == /\ valid
                  /\ Len(Get(cli_info, "subcommands", <<>>)) >= 2
                  /\ \A f \in {"--input", "--outdir"} :
                       f \in SeqElems(Get(cli_info, "flags", <<>>))
  IN assess_level(cli_full, valid)

\* zones_info.get("zones") or {}
ZonesOrEmpty(zones_info) ==
  LET z == Get(zones_info, "zones", PyNone)
  IN IF Truthy(z) THEN z.v ELSE EmptyDict

\* a variant that counts every entry of zones, literal or not
zones_level_any_value(zones_info) ==
  LET zs == ZonesOrEmpty(zones_info)
  IN assess_level(DOMAIN zs # {}, Truthy(Get(zones_info, "attempted", PyBool(FALSE))))

zones_level(zones_info) ==
  LET literal_zones == LiteralItems(ZonesOrEmpty(zones_info))
      zones_full == Cardinality(DOMAIN literal_zones) > 0
      zones_partial == Truthy(Get(zones_info, "attempted", PyBool(FALSE)))
  IN assess_level(zones_full, zones_partial)

\* a variant that reads golden_attempted for both predicates
formula_level_attempted_only(formula_info) ==
  LET a == Get(formula_info, "golden_attempted", FALSE)
  IN assess_level(a, a)

formula_level(formula_info) ==
  assess_level(Get(formula_info, "golden_pass", FALSE),
               Get(formula_info, "golden_attempted", FALSE))

LevelName(l) ==
  CASE l = "FULL" -> <<"FULL">> [] l = "PARTIAL" -> <<"PARTIAL">> [] OTHER -> <<"MINIMAL">>

calculate_compliance_levels(cli_info, zones_info, formula_info) ==
  LET c == cli_level(cli_info)
      z == zones_level(zones_info)
      f == formula_level(formula_info)
  IN [axes |-> [cli |-> c, zones |-> z, formula |-> f],
      global |-> MinByOrder(<<c, z, f>>),
      summary |-> <<"CLI:">> \o LevelName(c) \o <<"/ZONES:">> \o LevelName(z)
                  \o <<"/FORMULA:">> \o LevelName(f)]

(***************************************************************************)
(* Source text of the target, as a sequence of characters.  The name       *)
(* ZONE_THRESHOLDS is held as the single element "ZT", a newline as "NL";  *)
(* every other identifier character is "x".                                *)
(***************************************************************************)
Digits == <<"0", "1", "2", "3", "4", "5", "6", "7", "8", "9">>

IsDigit(c) == c \in SeqElems(Digits)

DigitVal(c) == (CHOOSE i \in 1..Len(Digits) : Digits[i] = c) - 1

\* \s of the regular expressions
IsWs(c) == c \in {" ", "NL"}

\* the first index >= i of s that holds no whitespace (Len(s) + 1 if none)
RECURSIVE SkipWs(_, _)
SkipWs(s, i) == IF i <= Len(s) /\ IsWs(s[i]) THEN SkipWs(s, i + 1) ELSE i

\* the first index >= i of s that holds no digit
RECURSIVE SkipDigits(_, _)
SkipDigits(s, i) == IF i <= Len(s) /\ IsDigit(s[i]) THEN SkipDigits(s, i + 1) ELSE i

\* the first index >= i of s that holds c (Len(s) + 1 if none)
RECURSIVE IndexOf(_, _, _)
IndexOf(s, c, i) == IF i <= Len(s) /\ s[i] # c THEN IndexOf(s, c, i + 1) ELSE i

At(s, i, c) == i <= Len(s) /\ s[i] = c

NoMatch == [ok |-> FALSE, inside |-> <<>>]

\* (?m)^\s*ZONE_THRESHOLDS\s*=\s*<open>([^<close>]+)<close>\s*$ tried at p
MatchAssignAt(s, p, open, close) ==
  LET lineStart == p = 1 \/ At(s, p - 1, "NL")
      n == SkipWs(s, p)
      e == SkipWs(s, n + 1)
      o == SkipWs(s, e + 1)
      c == IndexOf(s, close, o + 1)
      lineEnd == \E j \in (c + 1)..(Len(s) + 1) :
                   /\ \A k \in (c + 1)..(j - 1) : IsWs(s[k])
                   /\ (j = Len(s) + 1 \/ s[j] = "NL")
  IN IF /\ lineStart /\ At(s, n, "ZT") /\ At(s, e, "=") /\ At(s, o, open)
        /\ c <= Len(s) /\ c > o + 1 /\ lineEnd
     THEN [ok |-> TRUE, inside |-> SubSeq(s, o + 1, c - 1)]
     ELSE NoMatch

\* re.search: the leftmost position where the pattern matches
SearchAssign(s, open, close) ==
  LET hits == {p \in 1..Len(s) : MatchAssignAt(s, p, open, close).ok}
  IN IF hits = {} THEN NoMatch
     ELSE MatchAssignAt(s, CHOOSE p \in hits : \A q \in hits : p <= q, open, close)

\* \d+(?:\.\d*)?|\.\d+ tried at j: the index after the match, 0 if none
NumEnd(s, j) ==
  IF j > Len(s) THEN 0
  ELSE IF IsDigit(s[j])
       THEN LET k == SkipDigits(s, j)
            IN IF At(s, k, ".") THEN SkipDigits(s, k + 1) ELSE k
  ELSE IF s[j] = "." /\ j + 1 <= Len(s) /\ IsDigit(s[j + 1]) THEN SkipDigits(s, j + 1)
  ELSE 0

\* [-+]?(?:...) tried at i
MatchNumAt(s, i) ==
  IF s[i] \in {"-", "+"} THEN NumEnd(s, i + 1) ELSE NumEnd(s, i)

\* re.findall of the numeric-literal pattern from index i on
RECURSIVE FindNums(_, _)
FindNums(s, i) ==
  IF i > Len(s) THEN <<>>
  ELSE LET e == MatchNumAt(s, i)
       IN IF e > 0 THEN <<SubSeq(s, i, e - 1)>> \o FindNums(s, e)
          ELSE FindNums(s, i + 1)

\* the value of a run of digits
RECURSIVE DigitsValue(_)
DigitsValue(ds) ==
  IF ds = <<>> THEN 0
  ELSE DigitsValue(SubSeq(ds, 1, Len(ds) - 1)) * 10 + DigitVal(ds[Len(ds)])

\* float(x) of a matched literal with at most one fractional digit, in tenths
ParseFloat(lit) ==
  LET neg == lit[1] = "-"
      body == IF lit[1] \in {"-", "+"} THEN Tail(lit) ELSE lit
      dot == IndexOf(body, ".", 1)
      whole == DigitsValue(SubSeq(body, 1, dot - 1))
      frac == IF dot + 1 <= Len(body) THEN DigitVal(body[dot + 1]) ELSE 0
      mag == whole * 10 + frac
  IN PyFloat(IF neg THEN 0 - mag ELSE mag)

MapSeq(s, f(_)) == [i \in 1..Len(s) |-> f(s[i])]

\* _fallback_regex_thresholds: None, or the dict of the thresholds found
fallback_regex_thresholds(src) ==
  LET m1 == SearchAssign(src, "[", "]")
      m == IF m1.ok THEN m1 ELSE SearchAssign(src, "(", ")")
      nums == IF m.ok THEN FindNums(m.inside, 1) ELSE <<>>
  IN IF nums = <<>> THEN PyNone
     ELSE PyDict([thresholds |-> PyList(MapSeq(nums, ParseFloat)),
                  pattern |-> PyStr("fallback_regex"),
                  name |-> PyStr("ZONE_THRESHOLDS")])

(***************************************************************************)
(* The target's source: whether it parses, its top-level assignment to a   *)
(* constant (if any) and its conditional ladder (if any).  SourceText is   *)
(* the text the regular expressions read.                                  *)
(***************************************************************************)
NoAssign ==
  [kind |-> "none", name |-> "", annotated |-> FALSE, open |-> "[", items |-> <<>>,
   mapping |-> EmptyDict]

\* a name or expression that is no literal
PyExpr == [t |-> "expr"]

RECURSIVE DecDigits(_)
DecDigits(n) ==
  IF n < 10 THEN <<Digits[n + 1]>> ELSE DecDigits(n \div 10) \o <<Digits[(n % 10) + 1]>>

\* how a list element is written in the source
ItemText(x) ==
  CASE x.t = "int" ->
         (IF x.v < 0 THEN <<"-">> ELSE <<>>) \o DecDigits(IF x.v < 0 THEN 0 - x.v ELSE x.v)
    [] x.t = "float" ->
         LET m == IF x.v < 0 THEN 0 - x.v ELSE x.v
         IN (IF x.v < 0 THEN <<"-">> ELSE <<>>)
            \o DecDigits(m \div 10) \o <<".">> \o DecDigits(m % 10)
    [] OTHER -> <<"x">>

RECURSIVE ItemsText(_)
ItemsText(items) ==
  IF items = <<>> THEN <<>>
  ELSE IF Len(items) = 1 THEN ItemText(items[1])
  ELSE ItemText(items[1]) \o <<",", " ">> \o ItemsText(Tail(items))

AssignText(a) ==
  CASE a.kind = "list" ->
         <<(IF a.name = "ZONE_THRESHOLDS" THEN "ZT" ELSE "x")>>
         \o (IF a.annotated THEN <<":", " ", "x">> ELSE <<>>)
         \o <<" ", "=", " ", a.open>> \o ItemsText(a.items)
         \o <<(IF a.open = "[" THEN "]" ELSE ")")>> \o <<"NL">>
    [] a.kind = "mapping" ->
         <<(IF a.name = "ZONE_THRESHOLDS" THEN "ZT" ELSE "x")>>
         \o <<" ", "=", " ", "{", "x", "}", "NL">>
    [] OTHER -> <<>>

SourceText(src) ==
  <<"x", "NL">> \o AssignText(src.assign)
  \o (IF src.ladder # <<>> THEN <<"x", " ", "x", "NL">> ELSE <<>>)
  \o (IF src.parses THEN <<>> ELSE <<"(", "NL">>)

(***************************************************************************)
(* extract_zone_thresholds_ast of tests/contracts.py (the static           *)
(* extractor), from its description: direct assignment first, then the     *)
(* conditional ladder, then "no signal".                                   *)
(***************************************************************************)
RecognizedNames == {"ZONE_THRESHOLDS", "THRESHOLDS"}

AssignMatches(a) ==
  /\ a.kind \in {"list", "mapping"}
  /\ a.name \in RecognizedNames
  /\ a.kind = "list" => \A i \in 1..Len(a.items) : IsNumber(a.items[i])

LinkOk(l) == l.var = "T" /\ l.cmp \in {"lt", "le"} /\ l.label # ""

\* a variant without the check of the threshold order
LadderValidNoOrderCheck(ladder) ==
  /\ ladder # <<>>
  /\ \A i \in 1..Len(ladder) : LinkOk(ladder[i])

\* every link well formed and the thresholds strictly increasing
LadderValid(ladder) ==
  /\ ladder # <<>>
  /\ \A i \in 1..Len(ladder) : LinkOk(ladder[i])
  /\ \A i \in 1..(Len(ladder) - 1) : ladder[i].thr < ladder[i + 1].thr

LadderKeys(n) ==
  {"IF_" \o ToString(i) \o "_THRESHOLD" : i \in 0..(n - 1)}
  \cup {"IF_" \o ToString(i) \o "_LABEL" : i \in 0..(n - 1)}

LadderConstants(ladder) ==
  [k \in LadderKeys(Len(ladder)) |->
     LET i == CHOOSE j \in 1..Len(ladder) :
                k \in {"IF_" \o ToString(j - 1) \o "_THRESHOLD",
                       "IF_" \o ToString(j - 1) \o "_LABEL"}
     IN IF k = "IF_" \o ToString(i - 1) \o "_THRESHOLD"
        THEN PyFloat(ladder[i].thr) ELSE PyStr(ladder[i].label)]

LadderChain(ladder) ==
  [i \in 1..Len(ladder) |->
     PyDict([op |-> PyStr(ladder[i].cmp), threshold |-> PyFloat(ladder[i].thr),
             label |-> PyStr(ladder[i].label)])]

Returned(v) == [raised |-> FALSE, value |-> v, msg |-> ""]

Raised(m) == [raised |-> TRUE, value |-> PyNone, msg |-> m]

extract_zone_thresholds_ast(src) ==
  IF ~src.parses THEN Raised("invalid syntax")
  ELSE IF AssignMatches(src.assign)
  THEN IF src.assign.kind = "list"
       THEN Returned(PyDict([thresholds |-> PyList(src.assign.items),
                             pattern |-> PyStr("assign"),
                             name |-> PyStr(src.assign.name)]))
       ELSE Returned(PyDict([mapping |-> PyDict(LiteralItems(src.assign.mapping)),
                             pattern |-> PyStr("assign"),
                             name |-> PyStr(src.assign.name)]))
  ELSE IF LadderValid(src.ladder)
  THEN Returned(PyDict([constants |-> PyDict(LadderConstants(src.ladder)),
                        if_chain |-> PyList(LadderChain(src.ladder)),
                        pattern |-> PyStr("if_chain")]))
  ELSE Returned(PyDict([constants |-> PyDict(EmptyDict),
                        if_chain |-> PyList(<<>>),
                        pattern |-> PyStr("none")]))

\* extractor_fn(str(instrument_path)) if extractor_fn else None
CallExtractor(ext, src) ==
  CASE ext.kind = "absent" -> Returned(PyNone)
    [] ext.kind = "ast" -> extract_zone_thresholds_ast(src)
    [] ext.kind = "raise" -> Raised(ext.msg)
    [] OTHER -> Returned(ext.raw)

(***************************************************************************)
(* extract_zones                                                           *)
(***************************************************************************)
\* the keys a raw result may carry, in sorted() order
KeyOrder == <<"constants", "extra", "if_chain", "mapping", "name", "pattern", "thresholds">>

RECURSIVE JoinComma(_)
JoinComma(ks) ==
  IF ks = <<>> THEN ""
  ELSE IF Len(ks) = 1 THEN ks[1]
  ELSE ks[1] \o ", " \o JoinComma(Tail(ks))

\* ", ".join(sorted(raw.keys()))
SortedKeys(d) ==
  LET present(k) == k \in DOMAIN d
  IN JoinComma(FilterSeq(KeyOrder, present))

zones_initial ==
  [zones |-> PyDict(EmptyDict), constants |-> PyDict(EmptyDict), if_chain |-> PyList(<<>>),
   attempted |-> PyBool(TRUE), method |-> PyStr("ast")]

\* a variant that also withdraws attempted
ZonesFailedNotAttempted(out, msg) ==
  Put(Put(Put(out, "method", PyStr("ast_failed")), "error", PyStr(msg)),
      "attempted", PyBool(FALSE))

\* a variant that does not record the message
ZonesFailedWithoutError(out, msg) == Put(out, "method", PyStr("ast_failed"))

\* out["method"] = "ast_failed"; out["error"] = msg; return out
ZonesFailed(out, msg) == Put(Put(out, "method", PyStr("ast_failed")), "error", PyStr(msg))

\* a variant that numbers the thresholds from one
ThreshConstantsFromOne(xs) ==
  LET isnum(x) == IsNumber(x)
      ths == MapSeq(FilterSeq(xs, isnum), ToFloat)
  IN [k \in {"THRESH_" \o ToString(i) : i \in 1..Len(ths)} |->
        ths[CHOOSE i \in 1..Len(ths) : k = "THRESH_" \o ToString(i)]]

\* the least int that float() cannot take (a stand-in for the ints above
\* sys.float_info.max)
HugeInt == 1000

\* float(x) raises OverflowError
Overflows(x) == x.t = "int" /\ x.v >= HugeInt

\* out["constants"] = {f"THRESH_{i}": v for i, v in enumerate(ths)}
ThreshConstants(xs) ==
  LET isnum(x) == IsNumber(x)
      ths == MapSeq(FilterSeq(xs, isnum), ToFloat)
  IN [k \in {"THRESH_" \o ToString(i - 1) : i \in 1..Len(ths)} |->
        ths[CHOOSE i \in 1..Len(ths) : k = "THRESH_" \o ToString(i - 1)]]

\* out["zones"] = the literal entries of out["constants"]; return out
WithZones(out) ==
  LET cs == IF Truthy(out["constants"]) THEN out["constants"].v ELSE EmptyDict
  IN Put(out, "zones", PyDict(LiteralItems(cs)))

\* a variant that tests truthiness instead of the type
IsPassthroughTruthy(cs, ic) == (cs.t = "dict" /\ Truthy(cs)) \/ (ic.t = "list" /\ Truthy(ic))

\* isinstance(raw.get("constants"), dict) or isinstance(raw.get("if_chain"), list)
IsPassthrough(cs, ic) == cs.t = "dict" \/ ic.t = "list"

\* lines 153-195: the normalisation of a raw result that is not None
Normalise(out, raw) ==
  IF raw.t # "dict"
  THEN ZonesFailed(out, "extract_zone_thresholds_ast returned non-dict: " \o raw.t)
  ELSE
    LET d == raw.v
        th == Get(d, "thresholds", PyNone)
        mp == Get(d, "mapping", PyNone)
        cs == Get(d, "constants", PyNone)
        ic == Get(d, "if_chain", PyNone)
    IN IF th.t \in {"list", "tuple"} /\ \E i \in 1..Len(th.v) : Overflows(th.v[i])
       THEN ZonesFailed(out, "OverflowError: int too large to convert to float")
       ELSE IF th.t \in {"list", "tuple"}
       THEN WithZones(Put(Put(Put(out,
              "constants", PyDict(ThreshConstants(th.v))),
              "pattern", Get(d, "pattern", PyStr("thresholds"))),
              "name", Get(d, "name", PyNone)))
       ELSE IF mp.t = "dict"
       THEN WithZones(Put(Put(Put(out,
              "constants", PyDict(LiteralItems(mp.v))),
              "pattern", Get(d, "pattern", PyStr("mapping"))),
              "name", Get(d, "name", PyNone)))
       ELSE IF IsPassthrough(cs, ic)
       THEN WithZones(Put(Put(Put(out,
              "constants", IF cs.t = "dict" THEN cs ELSE PyDict(EmptyDict)),
              "if_chain", IF ic.t = "list" THEN ic ELSE PyList(<<>>)),
              "pattern", Get(d, "pattern", PyStr("ast"))))
       ELSE ZonesFailed(out,
              "extract_zone_thresholds_ast returned dict without recognized keys: "
              \o SortedKeys(d))

\* a variant that also consults the fallback when the extractor raised
extract_zones_fallback_on_failure(src, ext) ==
  LET out == zones_initial
      r == CallExtractor(ext, src)
  IN IF r.raised \/ r.value.t = "none"
     THEN LET fb == fallback_regex_thresholds(SourceText(src))
          IN IF fb.t = "none"
             THEN ZonesFailed(out, "extract_zone_thresholds_ast returned None")
             ELSE Normalise(Put(Put(out, "method", PyStr("fallback")),
                                "fallback", PyStr("ZONE_THRESHOLDS_regex")), fb)
     ELSE Normalise(out, r.value)

extract_zones(src, ext) ==
  LET out == zones_initial
      r == CallExtractor(ext, src)
  IN IF r.raised THEN ZonesFailed(out, r.msg)
     ELSE IF r.value.t = "none"
     THEN LET fb == fallback_regex_thresholds(SourceText(src))
          IN IF fb.t = "none"
             THEN ZonesFailed(out, "extract_zone_thresholds_ast returned None")
             ELSE Normalise(Put(Put(out, "method", PyStr("fallback")),
                                "fallback", PyStr("ZONE_THRESHOLDS_regex")), fb)
     ELSE Normalise(out, r.value)

(***************************************************************************)
(* check_formula_contract and _run_score_once                              *)
(***************************************************************************)
InOk(b) == [raised |-> FALSE, value |-> b]

InRaises == [raised |-> TRUE, value |-> FALSE]

\* a variant that finds every key in every container
PyInFound(key, x) ==
  IF x.t \in {"dict", "list", "tuple", "str"} THEN InOk(TRUE) ELSE InRaises

\* `key in x`: a TypeError when x is no container
PyIn(key, x) ==
  CASE x.t = "dict" -> InOk(key \in DOMAIN x.v)
    [] x.t \in {"list", "tuple"} -> InOk(\E i \in 1..Len(x.v) : x.v[i] = PyStr(key))
    [] x.t = "str" -> InOk(Contains(Chars(key), Chars(x.v)))
    [] OTHER -> InRaises

\* if "score" in it: it["score"] = 2
ItemRaises(it) ==
  LET c == PyIn("score", it)
  IN c.raised \/ (c.value /\ it.t # "dict")

SetScore(it) ==
  IF it.t = "dict" /\ "score" \in DOMAIN it.v
  THEN PyDict([it.v EXCEPT !["score"] = PyInt(2)])
  ELSE it

\* lines 244-247: json.loads of the template file and the overwrite of the scores
MutateTemplate(file) ==
  IF file.t = "invalid" THEN Raised("JSONDecodeError")
  ELSE IF file.t # "dict" THEN Raised("AttributeError: no attribute 'get'")
  ELSE LET items == Get(file.v, "items", PyList(<<>>))
       IN IF items.t \notin {"list", "tuple"}
          THEN (IF items.t = "str" THEN Returned(file)
                ELSE IF items.t = "dict"
                THEN (IF \E k \in DOMAIN items.v : ItemRaises(PyStr(k))
                      THEN Raised("TypeError: item") ELSE Returned(file))
                ELSE Raised("TypeError: object is not iterable"))
          ELSE IF \E i \in 1..Len(items.v) : ItemRaises(items.v[i])
          THEN Raised("TypeError: item")
          ELSE Returned(PyDict([file.v EXCEPT
                  !["items"] = PyList(MapSeq(items.v, SetScore))]))

\* the names tempfile may give to a fresh directory
TmpNames == {"/tmp/tmp_a", "/tmp/tmp_b"}

\* tempfile.TemporaryDirectory().__enter__: the directory exists
TempDirEnter(live, td) == live \cup {td}

\* a variant that removes the directory only when the block returns
TempDirExitOnReturn(live, td, raised) == IF raised THEN live ELSE live \ {td}

\* tempfile.TemporaryDirectory().__exit__: runs when the with block is left, by
\* return or by exception, and removes the directory and all it holds
TempDirExit(live, td, raised) == live \ {td}

\* what the target prints, given the path it was handed: a fixed text, or a
\* text that names the path
Emitted(text, path) == IF text = "@path" THEN "cannot write " \o path ELSE text

\* the result of _run_score_once: (returncode, stderr, results), or a fault;
\* td is the name tempfile gave to the directory
run_score_once(score, live, td) ==
  LET during == TempDirEnter(live, td)
      in_path == td \o "/input.json"
      results == IF score.results.t \in {"absent", "invalid"} THEN PyNone ELSE score.results
  IN IF ~score.launch
     THEN [raised |-> TRUE, msg |-> "FileNotFoundError: python3", rc |-> 0, err |-> "",
           results |-> PyNone, live |-> TempDirExit(during, td, TRUE)]
     ELSE [raised |-> FALSE, msg |-> "", rc |-> score.rc, err |-> Emitted(score.stderr, in_path),
           results |-> results, live |-> TempDirExit(during, td, FALSE)]

info_initial == [golden_attempted |-> TRUE, golden_pass |-> FALSE]

FormulaReturn(info, cs, live) ==
  [raised |-> FALSE, msg |-> "", info |-> info, calls |-> cs, live |-> live]

FormulaRaise(m, cs, live) ==
  [raised |-> TRUE, msg |-> m, info |-> info_initial, calls |-> cs, live |-> live]

\* a variant that looks at the exit status only
TemplateFailedByStatusOnly(tm) == tm.rc # 0

\* proc.returncode != 0 or not tpath.exists()
TemplateFailed(tm) == tm.rc # 0 \/ tm.file.t = "absent"

\* td and td2 are the names tempfile gave to the two directories
check_formula_contract(t, td, td2) ==
  LET during == TempDirEnter({}, td)
      tpath == td \o "/template.json"
      tm == t.tmpl
      mt == MutateTemplate(tm.file)
      sc == run_score_once(t.score, during, td2)
      hasT == PyIn("T", sc.results)
      hasK == PyIn("K_eff", sc.results)
  IN IF ~tm.launch
     THEN FormulaRaise("FileNotFoundError: python3", <<"new-template">>,
                       TempDirExit(during, td, TRUE))
     ELSE IF TemplateFailed(tm)
     THEN FormulaReturn(
            Put(info_initial, "error",
                "new-template failed: "
                \o Emitted(IF tm.stderr # "" THEN tm.stderr ELSE tm.stdout, tpath)),
            <<"new-template">>, TempDirExit(during, td, FALSE))
     ELSE IF mt.raised
     THEN FormulaRaise(mt.msg, <<"new-template">>, TempDirExit(during, td, TRUE))
     ELSE IF sc.raised
     THEN FormulaRaise(sc.msg, <<"new-template", "score">>, TempDirExit(sc.live, td, TRUE))
     ELSE IF sc.rc # 0 \/ ~Truthy(sc.results)
     THEN FormulaReturn(Put(info_initial, "error", "score failed: " \o sc.err),
                        <<"new-template", "score">>, TempDirExit(sc.live, td, FALSE))
     ELSE IF hasT.raised \/ (hasT.value /\ hasK.raised)
     THEN FormulaRaise("TypeError: argument is not iterable",
                       <<"new-template", "score">>, TempDirExit(sc.live, td, TRUE))
     ELSE IF ~hasT.value \/ ~hasK.value
     THEN FormulaReturn(Put(info_initial, "error", "results.json missing T and/or K_eff"),
                        <<"new-template", "score">>, TempDirExit(sc.live, td, FALSE))
     ELSE FormulaReturn([info_initial EXCEPT !.golden_pass = TRUE],
                        <<"new-template", "score">>, TempDirExit(sc.live, td, FALSE))

(***************************************************************************)
(* The driver: main() and generate_contract_report                         *)
(***************************************************************************)
NoFault == [origin |-> "none", msg |-> ""]

NoReport == [written |-> FALSE]

\* a variant that salts the digest with the time of the run
sha256_file_salted(t) == [digest_of |-> <<t.src, clock>>]

\* _sha256_file: the digest is a function of the bytes of the file, and of nothing else
sha256_file(t) == [digest_of |-> t.src]

\* a variant that does not look whether the target exists
MainResolveUnchecked ==
  /\ pc = "main"
  /\ pc' = "cli"
  /\ UNCHANGED <<run, first, clock, target, opts, cli, zones, formula, compliance, fault,
                 calls, tmpdirs, report>>

\* main, lines 338-340: the target path is resolved; a missing target is fatal
MainResolve ==
  /\ pc = "main"
  /\ IF target.exists
     THEN pc' = "cli" /\ fault' = fault
     ELSE pc' = "fatal" /\ fault' = [origin |-> "driver", msg |-> "Instrument not found"]
  /\ UNCHANGED <<run, first, clock, target, opts, cli, zones, formula, compliance, calls, tmpdirs, report>>

\* generate_contract_report, line 305
ExtractCli ==
  /\ pc = "cli"
  /\ cli' = extract_cli_contract(target.help)
  /\ calls' = Append(calls, "help")
  /\ pc' = "zones"
  /\ UNCHANGED <<run, first, clock, target, opts, zones, formula, compliance, fault, tmpdirs, report>>

\* generate_contract_report, line 306
ExtractZones ==
  /\ pc = "zones"
  /\ zones' = extract_zones(target.src, target.extractor)
  /\ calls' = IF target.extractor.kind = "absent" THEN calls ELSE Append(calls, "extractor")
  /\ pc' = "formula"
  /\ UNCHANGED <<run, first, clock, target, opts, cli, formula, compliance, fault, tmpdirs, report>>

\* a variant that records the skipped golden run as attempted
formula_unchecked_as_attempted == [golden_attempted |-> TRUE, golden_pass |-> FALSE]

\* the formula contract when the golden run is not requested (line 307)
formula_unchecked == [golden_attempted |-> FALSE, golden_pass |-> FALSE]

\* generate_contract_report, line 307
FormulaAxis ==
  /\ pc = "formula"
  /\ IF opts.check_formula
     THEN \E td \in TmpNames : \E td2 \in TmpNames \ {td} :
          LET r == check_formula_contract(target, td, td2)
          IN /\ calls' = calls \o r.calls
             /\ tmpdirs' = r.live
             /\ IF r.raised
                THEN /\ pc' = "crashed"
                     /\ fault' = [origin |-> "check_formula_contract", msg |-> r.msg]
                     /\ formula' = formula
                ELSE /\ pc' = "calc"
                     /\ fault' = fault
                     /\ formula' = r.info
     ELSE /\ formula' = formula_unchecked
          /\ pc' = "calc"
          /\ UNCHANGED <<calls, tmpdirs, fault>>
  /\ UNCHANGED <<run, first, clock, target, opts, cli, zones, compliance, report>>

\* generate_contract_report, line 308
Calculate ==
  /\ pc = "calc"
  /\ compliance' = calculate_compliance_levels(cli, zones, formula)
  /\ pc' = "report"
  /\ UNCHANGED <<run, first, clock, target, opts, cli, zones, formula, fault, calls, tmpdirs, report>>

\* generate_contract_report, lines 310-328, and main, lines 343-347
WriteReport ==
  /\ pc = "report"
  /\ IF opts.out_writable
     THEN /\ report' =
               [written |-> TRUE,
                contract_version |-> "1.5",
                instrument_path |-> target.path,
                instrument_hash |-> <<"sha256:", sha256_file(target)>>,
                validation_timestamp |-> clock,
                compliance |-> compliance,
                summary |->
                  [cli_help_valid |-> Get(cli, "help_valid", FALSE),
                   zones_attempted |-> Get(zones, "attempted", PyBool(FALSE)),
                   zones_count |-> Cardinality(DOMAIN LiteralItems(ZonesOrEmpty(zones))),
                   formula_checked |-> opts.check_formula,
                   formula_pass |-> IF opts.check_formula
                                    THEN Get(formula, "golden_pass", FALSE) ELSE FALSE],
                cli |-> cli, zones |-> zones, formula |-> formula]
          /\ pc' = "done"
          /\ fault' = fault
     ELSE /\ report' = report
          /\ pc' = "crashed"
          /\ fault' = [origin |-> "driver", msg |-> "OSError: report write"]
  /\ UNCHANGED <<run, first, clock, target, opts, cli, zones, formula, compliance, calls, tmpdirs>>

(***************************************************************************)
(* Inputs: what the target program and the injected capabilities may do    *)
(***************************************************************************)
MaxItems == 2

MaxLinks == 3

MaxThreshold == 3

\* the number of consecutive runs on one target
MaxRuns == 2

\* all sequences over S of length at most n
SeqsUpTo(S, n) == UNION {[1..k -> S] : k \in 0..n}

\* the words a help text may be made of, in the order they are printed
Vocabulary ==
  <<"usage:", "new-template", "score", "scores", "--input", "--inputs", "--outdir",
    "--help", "--agg_tau", "--agg_U+03C4">>

HelpOf(S) ==
  LET chosen(w) == w \in S
  IN [kind |-> "text", words |-> FilterSeq(Vocabulary, chosen), msg |-> "", rc |-> 0]

HelpFails == [kind |-> "raise", words |-> <<>>, msg |-> "help failed", rc |-> 0]

HelpNone == [kind |-> "none", words |-> <<>>, msg |-> "", rc |-> 0]

HelpObject == [kind |-> "object", words |-> <<>>, msg |-> "", rc |-> 0]

\* the same output from a target that exits with status rc; _run_help_fallback
\* returns stdout + stderr and does not read the status
HelpExit(h, rc) == [h EXCEPT !.rc = rc]

HelpAll ==
  {HelpFails, HelpNone, HelpObject}
  \cup {HelpExit(HelpOf(S), rc) : S \in SUBSET SeqElems(Vocabulary), rc \in {0, 2}}

HelpCompliant == HelpOf(SeqElems(Vocabulary) \ {"scores", "--inputs"})

HelpSmall == {HelpFails, HelpNone, HelpCompliant, HelpOf({"usage:", "score", "--input"})}

ItemValues == {PyFloat(10), PyFloat(25), PyInt(2), PyExpr}

ListAssign(n, a, o, xs) ==
  [kind |-> "list", name |-> n, annotated |-> a, open |-> o, items |-> xs,
   mapping |-> EmptyDict]

MappingAssign(n, m) ==
  [kind |-> "mapping", name |-> n, annotated |-> FALSE, open |-> "[", items |-> <<>>,
   mapping |-> m]

AssignNames == {"ZONE_THRESHOLDS", "THRESHOLDS", "LIMITS"}

MappingValues ==
  {EmptyDict, [LOW |-> PyFloat(10), HIGH |-> PyInt(2)], [LOW |-> PyStr("A"), HIGH |-> PyExpr]}

AssignAll ==
  {NoAssign}
  \cup {ListAssign(n, a, o, xs) :
         n \in AssignNames, a \in BOOLEAN, o \in {"[", "("}, xs \in SeqsUpTo(ItemValues, MaxItems)}
  \cup {MappingAssign(n, m) : n \in AssignNames, m \in MappingValues}

\* ZONE_THRESHOLDS: List[float] = [1.0, 2.0, 3.0] of the bundled instrument
InstrumentAssign ==
  ListAssign("ZONE_THRESHOLDS", TRUE, "[", <<PyFloat(10), PyFloat(20), PyFloat(30)>>)

Link(v, c, t, l) == [var |-> v, cmp |-> c, thr |-> t, label |-> l]

Links ==
  {Link("T", c, t * 10, "A") : c \in {"lt", "le"}, t \in 1..MaxThreshold}
  \cup {Link("other", "lt", 10, "A"), Link("T", "gt", 10, "A"), Link("T", "lt", 10, "")}

Ladders == SeqsUpTo(Links, MaxLinks)

Source(p, a, l) == [parses |-> p, assign |-> a, ladder |-> l]

InstrumentSource == Source(TRUE, InstrumentAssign, <<>>)

SourcesAll ==
  {Source(p, a, <<>>) : p \in BOOLEAN, a \in AssignAll}
  \cup {Source(TRUE, a, l) :
          a \in {NoAssign, InstrumentAssign,
                 ListAssign("LIMITS", FALSE, "[", <<PyFloat(10)>>)},
          l \in Ladders}

ExtAbsent == [kind |-> "absent", raw |-> PyNone, msg |-> ""]

ExtAst == [kind |-> "ast", raw |-> PyNone, msg |-> ""]

ExtRaises == [kind |-> "raise", raw |-> PyNone, msg |-> "extractor failed"]

ExtReturns(v) == [kind |-> "return", raw |-> v, msg |-> ""]

\* {} or {k: v} for each v of S
Opt(k, S) == {EmptyDict} \cup {k :> v : v \in S}

ChainLink == PyDict([op |-> PyStr("lt"), threshold |-> PyFloat(10), label |-> PyStr("A")])

RawDicts ==
  {PyDict(a @@ b @@ c @@ d @@ e @@ f) :
     a \in Opt("thresholds",
               {PyList(<<PyFloat(10), PyInt(2)>>), PyList(<<PyBool(TRUE), PyStr("x")>>),
                PyTuple(<<PyInt(1)>>), PyList(<<>>), PyStr("x"),
                PyList(<<PyInt(1), PyInt(HugeInt)>>)}),
     b \in Opt("mapping",
               {PyDict([A |-> PyInt(1), B |-> PyBool(TRUE), C |-> PyList(<<>>)]),
                PyDict(EmptyDict), PyList(<<>>)}),
     c \in Opt("constants",
               {PyDict([A |-> PyInt(1), B |-> PyBool(TRUE), C |-> PyNone, D |-> PyStr("z")]),
                PyDict([B |-> PyBool(TRUE)]), PyDict(EmptyDict), PyStr("x")}),
     d \in Opt("if_chain", {PyList(<<>>), PyList(<<ChainLink>>), PyStr("x")}),
     e \in Opt("pattern", {PyStr("custom")}),
     f \in Opt("extra", {PyInt(1)})}

RawValues == {PyNone, PyList(<<>>), PyStr("x"), PyInt(1)} \cup RawDicts

ZoneEnv(s, x) == [src |-> s, extractor |-> x]

\* the static extractor on every source; a stub extractor on every raw value;
\* no usable static result on every source text
ZoneEnvAll ==
  {ZoneEnv(s, ExtAst) : s \in SourcesAll}
  \cup {ZoneEnv(InstrumentSource, ExtReturns(v)) : v \in RawValues}
  \cup {ZoneEnv(Source(p, a, <<>>), x) :
          p \in BOOLEAN, a \in AssignAll, x \in {ExtAbsent, ExtRaises, ExtReturns(PyNone)}}

ZoneEnvSmall ==
  {ZoneEnv(InstrumentSource, ExtAst), ZoneEnv(InstrumentSource, ExtAbsent),
   ZoneEnv(Source(TRUE, NoAssign, <<>>), ExtAst),
   ZoneEnv(InstrumentSource, ExtReturns(PyDict([extra |-> PyInt(1)])))}

Item(hasScore) ==
  IF hasScore
  THEN PyDict([dimension |-> PyStr("x"), score |-> PyInt(1), weight |-> PyInt(1)])
  ELSE PyDict([dimension |-> PyStr("x")])

TemplateFiles ==
  {[t |-> "absent"], [t |-> "invalid"],
   PyDict([name |-> PyStr("x"), items |-> PyList(<<Item(TRUE), Item(FALSE)>>)]),
   PyDict([name |-> PyStr("x")]),
   PyDict([items |-> PyList(<<Item(TRUE), PyInt(1)>>)]),
   PyDict([items |-> PyList(<<PyStr("score")>>)]),
   PyDict([items |-> PyList(<<PyList(<<PyStr("score")>>)>>)]),
   PyDict([items |-> PyInt(1)]),
   PyDict([items |-> PyDict([score |-> PyInt(1)])]),
   PyDict([items |-> PyStr("x")]),
   PyList(<<>>), PyNone}

Tmpl(l, rc, f, e, o) == [launch |-> l, rc |-> rc, file |-> f, stderr |-> e, stdout |-> o]

TmplGood ==
  Tmpl(TRUE, 0, PyDict([name |-> PyStr("x"), items |-> PyList(<<Item(TRUE), Item(FALSE)>>)]),
       "", "")

TmplAll ==
  {Tmpl(l, rc, f, e, o) :
     l \in BOOLEAN, rc \in {0, 1}, f \in TemplateFiles, e \in {"", "err"}, o \in {"", "out"}}

ResultFiles ==
  {[t |-> "absent"], [t |-> "invalid"], PyNone, PyDict(EmptyDict), PyList(<<>>), PyInt(0),
   PyInt(5), PyBool(TRUE), PyStr("T,K_eff"), PyStr("x"), PyList(<<PyStr("T"), PyStr("K_eff")>>),
   PyList(<<PyStr("T")>>),
   PyDict([T |-> PyFloat(20), K_eff |-> PyFloat(10), zone |-> PyStr("B")]),
   PyDict([T |-> PyFloat(20)]), PyDict([K_eff |-> PyFloat(10)]), PyDict([zone |-> PyStr("B")])}

Score(l, rc, r, e) == [launch |-> l, rc |-> rc, results |-> r, stderr |-> e]

ScoreGood == Score(TRUE, 0, PyDict([T |-> PyFloat(20), K_eff |-> PyFloat(10), zone |-> PyStr("B")]), "")

ScoreAll == {Score(l, rc, r, e) : l \in BOOLEAN, rc \in {0, 1}, r \in ResultFiles, e \in {"", "err"}}

FormulaEnv(t, s) == [tmpl |-> t, score |-> s]

\* targets whose failure text names the path they were handed
FormulaEnvEcho ==
  {FormulaEnv(Tmpl(TRUE, 1, [t |-> "absent"], "@path", ""), ScoreGood),
   FormulaEnv(Tmpl(TRUE, 0, [t |-> "absent"], "", "@path"), ScoreGood),
   FormulaEnv(TmplGood, Score(TRUE, 1, [t |-> "absent"], "@path"))}

FormulaEnvAll ==
  {FormulaEnv(t, ScoreGood) : t \in TmplAll}
  \cup {FormulaEnv(t, s) :
          t \in {TmplGood, Tmpl(TRUE, 0, PyDict([name |-> PyStr("x")]), "", "")},
          s \in ScoreAll}
  \cup FormulaEnvEcho

\* a passing target, targets that fail with a fixed text, targets that fail with
\* a text naming the path, and a target that makes the verifier raise
FormulaEnvTwice ==
  {FormulaEnv(TmplGood, ScoreGood),
   FormulaEnv(Tmpl(TRUE, 1, [t |-> "absent"], "err", ""), ScoreGood),
   FormulaEnv(TmplGood, Score(TRUE, 1, [t |-> "absent"], "err")),
   FormulaEnv(TmplGood, Score(TRUE, 0, PyDict([T |-> PyFloat(20)]), "")),
   FormulaEnv(Tmpl(TRUE, 0, [t |-> "invalid"], "", ""), ScoreGood)}
  \cup FormulaEnvEcho

Target(e, h, z, f) ==
  [exists |-> e, path |-> "/repo/instrument.py", help |-> h, src |-> z.src,
   extractor |-> z.extractor, tmpl |-> f.tmpl, score |-> f.score]

Opts(c, w) == [check_formula |-> c, out_writable |-> w]

OptsAll == {Opts(c, w) : c \in BOOLEAN, w \in BOOLEAN}

\* the state at the entry of main()
Start(T, O) ==
  /\ pc = "main"
  /\ target \in T
  /\ opts \in O
  /\ cli = EmptyDict
  /\ zones = EmptyDict
  /\ formula = EmptyDict
  /\ compliance = EmptyDict
  /\ fault = NoFault
  /\ calls = <<>>
  /\ tmpdirs = {}
  /\ report = NoReport
  /\ run = 1
  /\ first = NoReport
  /\ clock = 0

Init ==
  Start({Target(e, h, z, f) :
           e \in BOOLEAN, h \in HelpSmall, z \in ZoneEnvSmall, f \in FormulaEnvAll},
        OptsAll)

InitCli ==
  Start({Target(TRUE, h, z, FormulaEnv(TmplGood, ScoreGood)) :
           h \in HelpAll, z \in {ZoneEnv(InstrumentSource, ExtAst)}},
        OptsAll)

InitZones ==
  Start({Target(TRUE, HelpCompliant, z, FormulaEnv(TmplGood, ScoreGood)) : z \in ZoneEnvAll},
        {Opts(TRUE, TRUE)})

InitTwice ==
  Start({Target(e, h, z, f) :
           e \in BOOLEAN, h \in HelpSmall, z \in ZoneEnvSmall, f \in FormulaEnvTwice},
        OptsAll)

\* contracts handed to calculate_compliance_levels directly
CliInfos ==
  {a @@ b @@ c :
     a \in Opt("help_valid", BOOLEAN),
     b \in Opt("subcommands", {<<>>, <<"new-template">>, <<"score">>, <<"new-template", "score">>}),
     c \in Opt("flags", {SortedSet(S) : S \in SUBSET {"--help", "--input", "--outdir"}})}

ZoneValues == {PyInt(1), PyStr("z"), PyBool(TRUE), PyNone}

ZoneDicts == UNION {[K -> ZoneValues] : K \in SUBSET {"THRESH_0", "LOW"}}

ZonesInfos ==
  {a @@ b :
     a \in Opt("zones", {PyNone} \cup {PyDict(d) : d \in ZoneDicts}),
     b \in Opt("attempted", {PyBool(TRUE), PyBool(FALSE)})}

\* a golden run that passed was attempted
FormulaInfos ==
  {i \in {a @@ b : a \in Opt("golden_attempted", BOOLEAN), b \in Opt("golden_pass", BOOLEAN)} :
     Get(i, "golden_pass", FALSE) => Get(i, "golden_attempted", FALSE)}

InitAgg ==
  /\ pc = "calc"
  /\ target = Target(TRUE, HelpCompliant, ZoneEnv(InstrumentSource, ExtAst),
                     FormulaEnv(TmplGood, ScoreGood))
  /\ opts = Opts(TRUE, TRUE)
  /\ cli \in CliInfos
  /\ zones \in ZonesInfos
  /\ formula \in FormulaInfos
  /\ compliance = EmptyDict
  /\ fault = NoFault
  /\ calls = <<>>
  /\ tmpdirs = {}
  /\ report = NoReport
  /\ run = 1
  /\ first = NoReport
  /\ clock = 0

\* the program is started again on the same target with the same options; a run
\* takes nothing from the run before it but the wall clock
Restart ==
  /\ pc = "done"
  /\ run < MaxRuns
  /\ run' = run + 1
  /\ first' = IF run = 1 THEN report ELSE first
  /\ clock' = clock + 1
  /\ pc' = "main"
  /\ cli' = EmptyDict
  /\ zones' = EmptyDict
  /\ formula' = EmptyDict
  /\ compliance' = EmptyDict
  /\ fault' = NoFault
  /\ calls' = <<>>
  /\ tmpdirs' = {}
  /\ report' = NoReport
  /\ UNCHANGED <<target, opts>>

Next ==
  \/ MainResolve
  \/ ExtractCli
  \/ ExtractZones
  \/ FormulaAxis
  \/ Calculate
  \/ WriteReport

Spec == Init /\ [][Next]_vars

SpecCli == InitCli /\ [][Next]_vars

SpecZones == InitZones /\ [][Next]_vars

NextAgg == Calculate

NextTwice == Next \/ Restart

SpecTwice == InitTwice /\ [][NextTwice]_vars

SpecAgg == InitAgg /\ [][NextAgg]_vars

(***************************************************************************)
(* Properties                                                              *)
(***************************************************************************)
Rank(l) == CASE l = "FULL" -> 3 [] l = "PARTIAL" -> 2 [] l = "MINIMAL" -> 1

Computed == DOMAIN compliance # {}

ZonesDone == DOMAIN zones # {}

AxisLevels == {compliance.axes.cli, compliance.axes.zones, compliance.axes.formula}

\* C1: the global compliance level is the minimum of the three axis levels under
\* FULL > PARTIAL > MINIMAL: it is one of them and none of them ranks below it.
C1_GlobalIsMinimum ==
  Computed =>
    /\ compliance.global \in AxisLevels
    /\ \A l \in AxisLevels : Rank(compliance.global) <= Rank(l)

\* axes {FULL, FULL, MINIMAL} give global MINIMAL
C1_Witness ==
  /\ Computed
  /\ compliance.axes.cli = "FULL"
  /\ compliance.axes.zones = "FULL"
  /\ compliance.axes.formula = "MINIMAL"
  /\ compliance.global = "MINIMAL"

\* C2: no fault escapes an axis extractor; only the driver (target resolution,
\* report write) ends the process with a non-zero status.
C2_ExtractorsTotal == fault.origin \in {"none", "driver"}

HelpValid == Get(cli, "help_valid", FALSE)

RequiredDetected ==
  {x \in SeqElems(required_subcommands) : x \in SeqElems(Get(cli, "subcommands", <<>>))}

RequiredFlagsPresent ==
  \A f \in SeqElems(required_flags) : f \in SeqElems(Get(cli, "flags", <<>>))

CliFullCondition == HelpValid /\ Cardinality(RequiredDetected) >= 2 /\ RequiredFlagsPresent

\* C3: the cli axis is FULL exactly when help is valid, both required subcommands
\* were detected and every required flag is among the detected flags; PARTIAL
\* exactly when help is valid and that condition fails; MINIMAL exactly when help
\* is not valid.
C3_CliAxis ==
  Computed =>
    /\ compliance.axes.cli = "FULL" <=> CliFullCondition
    /\ compliance.axes.cli = "PARTIAL" <=> (HelpValid /\ ~CliFullCondition)
    /\ compliance.axes.cli = "MINIMAL" <=> ~HelpValid

\* help valid, one subcommand detected, all required flags present: PARTIAL
C3_Witness ==
  /\ Computed
  /\ HelpValid
  /\ Cardinality(RequiredDetected) = 1
  /\ RequiredFlagsPresent
  /\ compliance.axes.cli = "PARTIAL"

Mentions(tok) == Contains(Chars(tok), HelpText(target.help))

HelpObtained == target.help.kind = "text"

BothSubcommands == Mentions("new-template") /\ Mentions("score")

FourFlagTokens == {"--input", "--outdir", "--agg_tau", "--agg_U+03C4"}

ZonesView ==
  LET z == Get(zones, "zones", PyNone)
  IN IF z.t = "dict" THEN z.v ELSE EmptyDict

LiteralView == {k \in DOMAIN ZonesView : ZonesView[k].t \in {"int", "float", "str"}}

Attempted == Get(zones, "attempted", PyBool(FALSE)) = PyBool(TRUE)

\* C5: the zones axis is FULL exactly when the literal zones view (int, float or
\* string values, booleans excluded) is non-empty; PARTIAL exactly when the view is
\* empty and an extraction was attempted; MINIMAL otherwise.
C5_ZonesAxis ==
  Computed =>
    /\ compliance.axes.zones = "FULL" <=> LiteralView # {}
    /\ compliance.axes.zones = "PARTIAL" <=> (LiteralView = {} /\ Attempted)
    /\ compliance.axes.zones = "MINIMAL" <=> (LiteralView = {} /\ ~Attempted)

\* a zones dict that holds only a boolean, extraction attempted: PARTIAL
C5_Witness ==
  /\ Computed
  /\ DOMAIN ZonesView # {}
  /\ \A k \in DOMAIN ZonesView : ZonesView[k].t = "bool"
  /\ Attempted
  /\ compliance.axes.zones = "PARTIAL"

GoldenPass == Get(formula, "golden_pass", FALSE)

GoldenAttempted == Get(formula, "golden_attempted", FALSE)

\* C6: the formula axis is FULL exactly when the golden run passed; PARTIAL exactly
\* when it was attempted and did not pass; MINIMAL exactly when no golden run was
\* attempted.
C6_FormulaAxis ==
  Computed =>
    /\ compliance.axes.formula = "FULL" <=> GoldenPass
    /\ compliance.axes.formula = "PARTIAL" <=> (GoldenAttempted /\ ~GoldenPass)
    /\ compliance.axes.formula = "MINIMAL" <=> ~GoldenAttempted

\* attempted and not passed: PARTIAL
C6_Witness ==
  /\ Computed
  /\ GoldenAttempted
  /\ ~GoldenPass
  /\ compliance.axes.formula = "PARTIAL"

RawResult == target.extractor.raw

StubReturned == target.extractor.kind = "return"

\* a value that is no dict, or a dict with none of the four keys in its recognized form
Unrecognized(raw) ==
  \/ raw.t \notin {"none", "dict"}
  \/ /\ raw.t = "dict"
     /\ Get(raw.v, "thresholds", PyNone).t \notin {"list", "tuple"}
     /\ Get(raw.v, "mapping", PyNone).t # "dict"
     /\ Get(raw.v, "constants", PyNone).t # "dict"
     /\ Get(raw.v, "if_chain", PyNone).t # "list"

KeyDiagnostic(raw) ==
  "extract_zone_thresholds_ast returned dict without recognized keys: "
  \o JoinComma(FilterSeq(KeyOrder, LAMBDA k : k \in DOMAIN raw.v))

DiagnosticCaptured ==
  /\ "error" \in DOMAIN zones
  /\ zones["method"] = PyStr("ast_failed")
  /\ RawResult.t = "dict" => zones["error"] = PyStr(KeyDiagnostic(RawResult))

\* C7 as stated: an unrecognized raw shape is captured as a diagnostic with method
\* ast_failed, and the zones axis computed from that result is MINIMAL.
C7_DegradesToMinimal ==
  (Computed /\ StubReturned /\ Unrecognized(RawResult)) =>
    /\ DiagnosticCaptured
    /\ compliance.axes.zones = "MINIMAL"

\* C7 amended: an unrecognized raw shape is captured as a diagnostic with method
\* ast_failed (listing the keys of a dict); the result keeps attempted = true and
\* an empty zones view, so the zones axis computed from it is PARTIAL.
C7_DegradesToPartial ==
  (Computed /\ StubReturned /\ Unrecognized(RawResult)) =>
    /\ DiagnosticCaptured
    /\ Attempted
    /\ LiteralView = {}
    /\ compliance.axes.zones = "PARTIAL"

\* a dict with unrecognized keys only
C7_Witness ==
  /\ Computed /\ StubReturned
  /\ RawResult.t = "dict"
  /\ DOMAIN RawResult.v = {"extra", "pattern"}
  /\ zones["error"] =
       PyStr("extract_zone_thresholds_ast returned dict without recognized keys: extra, pattern")
  /\ compliance.axes.zones = "PARTIAL"

ExtractorRaised == CallExtractor(target.extractor, target.src).raised

FallbackFound == fallback_regex_thresholds(SourceText(target.src))

\* C8: when the static extractor raises and the source has a matching
\* ZONE_THRESHOLDS assignment, the result carries the fallback thresholds with
\* method fallback.
C8_FallbackAfterFailure ==
  (ZonesDone /\ ExtractorRaised /\ FallbackFound.t # "none") =>
    /\ zones["method"] = PyStr("fallback")
    /\ zones["constants"] = PyDict(ThreshConstants(FallbackFound.v.thresholds.v))

NoSignalSource ==
  /\ target.src.assign.kind = "none" \/ target.src.assign.name \notin RecognizedNames
  /\ target.src.ladder = <<>>

NoSignalResult ==
  /\ Get(zones, "pattern", PyNone) = PyStr("none")
  /\ zones["constants"] = PyDict(EmptyDict)
  /\ "error" \notin DOMAIN zones
  /\ zones["method"] # PyStr("ast_failed")

\* C9 as stated: every source without a recognized constant or ladder gives
\* pattern "none", empty constants and no error.
C9_NoSignalAlways == (ZonesDone /\ NoSignalSource) => NoSignalResult

\* C9 amended: when the static extractor is supplied and the source parses, a
\* source without a recognized constant or ladder gives pattern "none", empty
\* constants and no error.
C9_NoSignalStatic ==
  (ZonesDone /\ NoSignalSource /\ target.extractor.kind = "ast" /\ target.src.parses)
    => NoSignalResult

\* a parsed source whose only constant has an unrecognized name
C9_Witness ==
  /\ ZonesDone /\ NoSignalSource
  /\ target.extractor.kind = "ast" /\ target.src.parses
  /\ target.src.assign.kind = "list"
  /\ Len(target.src.assign.items) > 0
  /\ NoSignalResult

NonIncreasing(l) == \E i \in 1..(Len(l) - 1) : l[i].thr >= l[i + 1].thr

IfChain == zones["if_chain"].v

\* C10: with the static extractor, a ladder with an equal or decreasing adjacent
\* pair of thresholds leaves if_chain empty and contributes no constants; every
\* non-empty if_chain has strictly increasing thresholds.
C10_LadderRejected ==
  (ZonesDone /\ target.extractor.kind = "ast") =>
    /\ NonIncreasing(target.src.ladder) =>
         /\ IfChain = <<>>
         /\ DOMAIN zones["constants"].v \cap LadderKeys(Len(target.src.ladder)) = {}
    /\ \A i \in 1..(Len(IfChain) - 1) :
         IfChain[i].v.threshold.v < IfChain[i + 1].v.threshold.v

\* two increasing links followed by a link that does not increase: rejected
C10_Witness ==
  /\ ZonesDone /\ target.extractor.kind = "ast" /\ target.src.parses
  /\ target.src.assign.kind = "none"
  /\ Len(target.src.ladder) = 3
  /\ \A i \in 1..3 : LinkOk(target.src.ladder[i])
  /\ target.src.ladder[1].thr < target.src.ladder[2].thr
  /\ target.src.ladder[3].thr <= target.src.ladder[2].thr
  /\ IfChain = <<>>
  /\ zones["constants"] = PyDict(EmptyDict)

\* the target assigns a list of numeric literals to a recognized constant name
NumericListSource ==
  /\ target.src.assign.kind = "list"
  /\ target.src.assign.name \in RecognizedNames
  /\ \A i \in 1..Len(target.src.assign.items) : IsNumber(target.src.assign.items[i])

DeclaredItems == target.src.assign.items

ThreshKey(i) == "THRESH_" \o ToString(i)

\* n scalar entries THRESH_0 .. THRESH_{n-1} in list order, static method, FULL for n >= 1
StaticListResult ==
  /\ DOMAIN ZonesView = {ThreshKey(i - 1) : i \in 1..Len(DeclaredItems)}
  /\ \A i \in 1..Len(DeclaredItems) : ZonesView[ThreshKey(i - 1)] = ToFloat(DeclaredItems[i])
  /\ zones["method"] = PyStr("ast")
  /\ (Computed /\ Len(DeclaredItems) >= 1) => compliance.axes.zones = "FULL"

CliDone == DOMAIN cli # {}

HelpFailed == HelpRaises(target.help)

\* C12: when the run-help capability fails, extract_cli_contract returns (no
\* fault escapes it) a contract that carries the failure message, help_valid
\* false, no detected subcommands and no detected flags, and nothing that a scan
\* of the text would have written.
C12_HelpFailureContained ==
  /\ fault.origin # "extract_cli_contract"
  /\ (HelpFailed /\ pc \notin {"main", "fatal", "cli"}) =>
       /\ CliDone
       /\ cli["error"] = target.help.msg
       /\ cli.help_valid = FALSE
       /\ cli.help_len = 0
       /\ cli.subcommands = <<>>
       /\ cli.flags = <<>>
       /\ "tau_aliases" \notin DOMAIN cli

\* the capability failed, the contract holds the message and the run went on
C12_Witness ==
  /\ Computed /\ HelpFailed
  /\ cli["error"] = "help failed"
  /\ ~cli.help_valid
  /\ compliance.axes.cli = "MINIMAL"

FormulaDone == DOMAIN formula # {}

\* new-template exited 0, left a template file, and the file was loaded and rewritten
TemplateGenerated ==
  /\ target.tmpl.launch
  /\ target.tmpl.rc = 0
  /\ target.tmpl.file.t # "absent"

TemplateUsable == TemplateGenerated /\ ~MutateTemplate(target.tmpl.file).raised

ScoreSucceeded == target.score.launch /\ target.score.rc = 0

ResultsOmitField ==
  /\ target.score.results.t = "dict"
  /\ {"T", "K_eff"} \ DOMAIN target.score.results.v # {}

\* C13: when the golden run's score invocation succeeds and its results omit T or
\* K_eff, check_formula_contract returns golden_attempted true and golden_pass
\* false with an error string, and the formula axis is PARTIAL.
C13_MissingFieldPartial ==
  (FormulaDone /\ opts.check_formula /\ TemplateUsable /\ ScoreSucceeded /\ ResultsOmitField) =>
    /\ formula.golden_attempted
    /\ ~formula.golden_pass
    /\ "error" \in DOMAIN formula
    /\ DOMAIN target.score.results.v # {} =>
         formula["error"] = "results.json missing T and/or K_eff"
    /\ Computed => compliance.axes.formula = "PARTIAL"

\* results that hold T and no K_eff
C13_Witness ==
  /\ Computed /\ opts.check_formula /\ TemplateUsable /\ ScoreSucceeded
  /\ target.score.results = PyDict([T |-> PyFloat(20)])
  /\ formula["error"] = "results.json missing T and/or K_eff"
  /\ compliance.axes.formula = "PARTIAL"

FormulaExited == opts.check_formula /\ pc \in {"calc", "report", "done", "crashed"}

FormulaFaulted == fault.origin = "check_formula_contract"

\* C14: once check_formula_contract has exited, by an early failure return, by
\* the success return or by an exception, neither its template directory nor the
\* input/output directory of _run_score_once exists.
C14_TempDirsRemoved == FormulaExited => tmpdirs = {}

\* an exception raised after both directories were created: nothing is left
C14_Witness ==
  /\ FormulaExited /\ FormulaFaulted
  /\ calls[Len(calls)] = "score"
  /\ tmpdirs = {}

\* a report without its validation_timestamp
SansTimestamp(r) == [k \in DOMAIN r \ {"validation_timestamp"} |-> r[k]]

\* a report without its validation_timestamp and without the text of formula.error
SansFailureText(r) ==
  [k \in DOMAIN r \ {"validation_timestamp"} |->
     IF k = "formula" THEN [j \in DOMAIN r[k] \ {"error"} |-> r[k][j]] ELSE r[k]]

SecondReport == run >= 2 /\ first.written /\ report.written

NothingExtracted ==
  /\ calls = <<>>
  /\ cli = EmptyDict
  /\ zones = EmptyDict
  /\ formula = EmptyDict
  /\ compliance = EmptyDict
  /\ tmpdirs = {}

\* C16: when the target path does not exist the driver ends with a fatal error
\* before any axis extraction: no help invocation, no zone extraction, no golden
\* run and no report file.
C16_MissingTargetAborts ==
  ~target.exists =>
    /\ pc \in {"main", "fatal"}
    /\ pc = "fatal" => (fault.origin = "driver" /\ fault.msg = "Instrument not found")
    /\ NothingExtracted
    /\ ~report.written

\* the driver has ended on a missing target, with the golden run requested
C16_Witness ==
  /\ ~target.exists
  /\ opts.check_formula
  /\ pc = "fatal"
  /\ NothingExtracted
  /\ ~report.written

StaticOutcome == CallExtractor(target.extractor, target.src)

\* the capability is absent, or it returned None
NoStaticResult ==
  \/ target.extractor.kind = "absent"
  \/ (~StaticOutcome.raised /\ StaticOutcome.value.t = "none")

StaticResultReturned == ~StaticOutcome.raised /\ StaticOutcome.value.t # "none"

ByFallback == zones["method"] = PyStr("fallback")

\* constants of the shape {THRESH_0: float, ..., THRESH_{n-1}: float}
ThreshShape(cs) ==
  /\ cs.t = "dict"
  /\ DOMAIN cs.v = {ThreshKey(i - 1) : i \in 1..Cardinality(DOMAIN cs.v)}
  /\ \A k \in DOMAIN cs.v : cs.v[k].t = "float"

TemplateInvocationFailed ==
  /\ target.tmpl.launch
  /\ (target.tmpl.rc # 0 \/ target.tmpl.file.t = "absent")

\* proc.stderr or proc.stdout, as the target printed it
TemplateFailureText ==
  IF target.tmpl.stderr # "" THEN target.tmpl.stderr ELSE target.tmpl.stdout

Invoked(c) == c \in SeqElems(calls)

\* C18: when new-template exits non-zero or leaves no template file, the result
\* is golden_attempted true, golden_pass false and the failure text, and score is
\* not invoked in that call; score is invoked only after new-template was invoked,
\* exited with zero and left a template file.
C18_ScoreOnlyAfterTemplate ==
  FormulaExited =>
    /\ TemplateInvocationFailed =>
         /\ ~FormulaFaulted
         /\ DOMAIN formula = {"golden_attempted", "golden_pass", "error"}
         /\ formula.golden_attempted
         /\ ~formula.golden_pass
         /\ \E td \in TmpNames :
              formula["error"] =
                "new-template failed: " \o Emitted(TemplateFailureText, td \o "/template.json")
         /\ Invoked("new-template")
         /\ ~Invoked("score")
    /\ Invoked("score") =>
         /\ TemplateGenerated
         /\ \E i, j \in 1..Len(calls) : i < j /\ calls[i] = "new-template" /\ calls[j] = "score"

\* new-template exited 0 and left no file: failure recorded, score not run
C18_Witness ==
  /\ FormulaExited
  /\ target.tmpl.launch /\ target.tmpl.rc = 0 /\ target.tmpl.file.t = "absent"
  /\ target.tmpl.stderr = "" /\ target.tmpl.stdout = "out"
  /\ formula = [golden_attempted |-> TRUE, golden_pass |-> FALSE,
                 error |-> "new-template failed: out"]
  /\ ~Invoked("score")

\* C19: when the golden run is not requested, the formula contract is
\* golden_attempted false / golden_pass false, the formula axis is MINIMAL and so
\* is the global level, whatever the cli and zones axes are, and
\* summary.formula_pass is false.
C19_UncheckedFormulaIsMinimal ==
  ~opts.check_formula =>
    /\ FormulaDone =>
         /\ formula = [golden_attempted |-> FALSE, golden_pass |-> FALSE]
         /\ ~Invoked("new-template") /\ ~Invoked("score")
    /\ Computed =>
         /\ compliance.axes.formula = "MINIMAL"
         /\ compliance.global = "MINIMAL"
    /\ report.written =>
         /\ ~report.summary.formula_pass
         /\ ~report.summary.formula_checked
         /\ report.compliance.global = "MINIMAL"

\* cli and zones both FULL, golden run not requested: the report says MINIMAL
C19_Witness ==
  /\ ~opts.check_formula
  /\ report.written
  /\ report.compliance.axes.cli = "FULL"
  /\ report.compliance.axes.zones = "FULL"
  /\ report.compliance.axes.formula = "MINIMAL"
  /\ report.compliance.global = "MINIMAL"
  /\ ~report.summary.formula_pass

ZonesMethod == zones["method"].v

\* C20: every result of extract_zones has attempted true, carries an error exactly
\* when its method is ast_failed, and has an empty zones view whenever its method
\* is ast_failed; the zones axis computed from it is never MINIMAL.
C20_ZonesResultShape ==
  ZonesDone =>
    /\ zones["attempted"] = PyBool(TRUE)
    /\ ZonesMethod \in {"ast", "fallback", "ast_failed"}
    /\ "error" \in DOMAIN zones <=> ZonesMethod = "ast_failed"
    /\ ZonesMethod = "ast_failed" => zones["zones"] = PyDict(EmptyDict)
    /\ zones_level(zones) # "MINIMAL"
    /\ Computed => compliance.axes.zones \in {"FULL", "PARTIAL"}

\* a threshold that float() cannot take: the fault is captured while the result
\* is being normalised, the view stays empty and the axis is PARTIAL
C20_Witness ==
  /\ Computed /\ StubReturned
  /\ ZonesMethod = "ast_failed"
  /\ zones["error"] = PyStr("OverflowError: int too large to convert to float")
  /\ zones["attempted"] = PyBool(TRUE)
  /\ zones["zones"] = PyDict(EmptyDict)
  /\ compliance.axes.zones = "PARTIAL"

HelpReturned == ~HelpRaises(target.help)

\* the capability returned None or the empty text
HelpReturnedEmpty ==
  \/ target.help.kind = "none"
  \/ (target.help.kind = "text" /\ target.help.words = <<>>)

\* C21: whenever the run-help capability returns without raising, help_valid is
\* true, whatever it returned and whatever the target's exit status; with None or
\* empty text the contract has help_len 0, no detected subcommands or flags and no
\* error, and the cli axis is PARTIAL.
C21_ValidWheneverHelpReturns ==
  CliDone =>
    /\ HelpReturned => cli.help_valid
    /\ HelpReturnedEmpty =>
         /\ cli.help_valid
         /\ cli.help_len = 0
         /\ cli.subcommands = <<>>
         /\ cli.flags = <<>>
         /\ "error" \notin DOMAIN cli
         /\ Computed => compliance.axes.cli = "PARTIAL"

\* the target exits with 2 and prints nothing: help valid, axis PARTIAL
C21_Witness ==
  /\ Computed
  /\ target.help.kind = "text" /\ target.help.words = <<>> /\ target.help.rc = 2
  /\ cli.help_valid
  /\ cli.help_len = 0
  /\ compliance.axes.cli = "PARTIAL"

====
